---- MODULE Spec2Model ----
(***************************************************************************)
(* algebruh (src/main.py): expression trees over Symbol, Integer, Add and  *)
(* Mul, with coercion (to_expr), equality (__eq__), simplify, derivative   *)
(* and to_sexpr.                                                           *)
(*                                                                         *)
(* Python values are records carrying their class in the field tag:        *)
(*   Symbol  [tag, name]    name  a string                                 *)
(*   Integer [tag, value]   value an integer                               *)
(*   Add/Mul [tag, args]    args  the pair <<lhs, rhs>> (self.args)        *)
(*   int     [tag, value]   a native Python integer                        *)
(*   float   [tag, text]    a native float, text its str()                 *)
(*   str     [tag, text]    a native string                                *)
(*   bool    [tag, value]   the result of ==                               *)
(*   ValueError [tag, msg]  a raised exception, msg its message fragments  *)
(* A string is the sequence of its characters, so that repr and to_sexpr   *)
(* are computed character by character as the f-strings build them.        *)
(***************************************************************************)
EXTENDS Integers, Sequences, FiniteSets, TLC

VARIABLES thing, call, arg, out

vars == <<thing, call, arg, out>>

\* ---------------------------------------------------------------- bounds
\* wrapping steps (constructor applications) allowed on top of a root
MaxDepth == 2
MaxApiDepth == 1
MaxSpine == 4

\* --------------------------------------------------------- Python values
None == [tag |-> "None"]

PyInt(i) == [tag |-> "int", value |-> i]

PyBool(b) == [tag |-> "bool", value |-> b]

PyStr(chars) == [tag |-> "str", text |-> chars]

PyFloat(chars) == [tag |-> "float", text |-> chars]

ValueError(msg) == [tag |-> "ValueError", msg |-> msg]

\* v is a raised exception rather than a returned value
IsError(v) == v.tag \in {"ValueError", "TypeError", "AssertionError"}

\* isinstance(v, Expr)
IsExpr(v) == v.tag \in {"Symbol", "Integer", "Add", "Mul"}

\* isinstance(v, AtomicExpr)
IsAtomic(v) == v.tag \in {"Symbol", "Integer"}

\* isinstance(v, BinaryOp)
IsBinaryOp(v) == v.tag \in {"Add", "Mul"}

\* type(v) as Python prints it
TypeName(v) == v.tag

TypeRepr(v) == "<class '" \o v.tag \o "'>"

\* ------------------------------------------------------------- rendering
Digits == <<"0", "1", "2", "3", "4", "5", "6", "7", "8", "9">>

RECURSIVE NatStr(_)
NatStr(n) ==
    IF n < 10 THEN <<Digits[n + 1]>>
    ELSE NatStr(n \div 10) \o <<Digits[(n % 10) + 1]>>

\* str(value) of a native integer
IntStr(n) == IF n < 0 THEN <<"-">> \o NatStr(-n) ELSE NatStr(n)

\* str(thing) of a native value inside an f-string
Format(v) == IF v.tag = "int" THEN IntStr(v.value) ELSE v.text

\* ------------------------------------------------------------- coercion
Symbol(name) == [tag |-> "Symbol", name |-> name]

Integer(value) == [tag |-> "Integer", value |-> value]

to_expr_raise_type(v) ==
    IF IsExpr(v) THEN v
    ELSE IF v.tag = "int" THEN Integer(v.value)
    ELSE [tag |-> "TypeError", msg |-> <<"Cannot convert ", TypeName(v), " to Expr">>]

to_expr(v) ==
    IF IsExpr(v) THEN v
    ELSE IF v.tag = "int" THEN Integer(v.value)
    ELSE ValueError(<<"Cannot convert ">> \o Format(v) \o <<" to Expr">>)

\* BinaryOp.__init__: self.args = [to_expr(lhs), to_expr(rhs)]
BinaryOp(cls, lhs, rhs) ==
    LET l == to_expr(lhs)
        r == to_expr(rhs)
    IN  IF IsError(l) THEN l
        ELSE IF IsError(r) THEN r
        ELSE [tag |-> cls, args |-> <<l, r>>]

Mul(lhs, rhs) == BinaryOp("Mul", lhs, rhs)

Add(lhs, rhs) == BinaryOp("Add", lhs, rhs)

\* the op property of Mul and Add
op(e) == IF e.tag = "Mul" THEN "*" ELSE "+"

RECURSIVE repr(_)
repr(e) ==
    IF e.tag = "Symbol" THEN e.name
    ELSE IF e.tag = "Integer" THEN IntStr(e.value)
    ELSE <<"(">> \o repr(e.args[1]) \o <<" ", op(e), " ">> \o repr(e.args[2]) \o <<")">>

\* ------------------------------------------------------------- equality
\* Symbol.__eq__
SymbolEq(self, other) == other.tag = "Symbol" /\ self.name = other.name

\* Expr.__eq__ ; `self is other` implies equal reprs, so the shortcut
\* never changes the answer
ExprEq(self, other) == repr(to_expr(self)) = repr(to_expr(other))

\* self == other with self an expression: the method of self's class
Eq(self, other) ==
    IF self.tag = "Symbol" THEN SymbolEq(self, other) ELSE ExprEq(self, other)

\* ----------------------------------------------------------- arithmetic
ExprAdd(self, other) == Add(self, other)

ExprMul(self, other) == Mul(self, other)

ExprRMulSwapped(self, other) == Mul(self, other)

ExprRMul(self, other) == Mul(other, self)

IntegerAddNoFold(self, other) == Add(self, to_expr(other))

IntegerAdd(self, other) ==
    LET o == to_expr(other)
    IN  IF o.tag = "Integer" THEN Integer(self.value + o.value) ELSE Add(self, o)

\* a + b with a an expression: Integer overrides __add__
PyAdd(a, b) == IF a.tag = "Integer" THEN IntegerAdd(a, b) ELSE ExprAdd(a, b)

\* a * b with a an expression
PyMul(a, b) == ExprMul(a, b)

\* ------------------------------------------------------------- simplify
RECURSIVE simplify(_)

\* the Add branch after both operands are simplified (a, b)
AddRuleKeepsZero(a, b) ==
    IF Eq(a, PyInt(0)) THEN b
    ELSE IF Eq(a, b) THEN ExprRMul(a, PyInt(2))
    ELSE PyAdd(a, b)

AddRule(a, b) ==
    IF Eq(a, PyInt(0)) THEN b
    ELSE IF Eq(b, PyInt(0)) THEN a
    ELSE IF Eq(a, b) THEN ExprRMul(a, PyInt(2))
    ELSE PyAdd(a, b)

MulRuleZeroOnly(a, b) ==
    IF Eq(a, PyInt(0)) \/ Eq(b, PyInt(0)) THEN to_expr(PyInt(0))
    ELSE PyMul(a, b)

\* the Mul branch after both operands are simplified (a, b)
MulRule(a, b) ==
    IF Eq(a, PyInt(0)) \/ Eq(b, PyInt(0)) THEN to_expr(PyInt(0))
    ELSE IF Eq(a, PyInt(1)) THEN b
    ELSE IF Eq(b, PyInt(1)) THEN a
    ELSE PyMul(a, b)

\* the body of simplify, before the to_expr_ret wrapper
simplify_fn(v) ==
    LET expr == to_expr(v)
    IN  IF IsError(expr) THEN expr
        ELSE IF IsAtomic(expr) THEN expr
        ELSE IF expr.tag = "Add"
             THEN AddRule(simplify(expr.args[1]), simplify(expr.args[2]))
        ELSE IF expr.tag = "Mul"
             THEN MulRule(simplify(expr.args[1]), simplify(expr.args[2]))
        ELSE ValueError(<<TypeRepr(expr), " is not handled">>)

\* to_expr_ret: an exception propagates, a result is coerced
to_expr_ret(r) == IF IsError(r) THEN r ELSE to_expr(r)

simplify(v) == to_expr_ret(simplify_fn(v))

\* ----------------------------------------------------------- derivative
RECURSIVE derivative(_, _)

\* the body of derivative, before the simplify_ret wrapper
derivative_fn(v, var) ==
    LET coerced == to_expr(v)
        expr == simplify(coerced)
    IN  IF IsError(coerced) THEN coerced
        ELSE IF expr.tag = "Add"
             THEN PyAdd(derivative(expr.args[1], var), derivative(expr.args[2], var))
        ELSE IF expr.tag = "Mul"
             THEN PyAdd(PyMul(derivative(expr.args[1], var), expr.args[2]),
                        PyMul(derivative(expr.args[2], var), expr.args[1]))
        ELSE IF expr.tag = "Integer" THEN PyInt(0)
        ELSE IF expr.tag = "Symbol"
             THEN (IF Eq(expr, var) THEN PyInt(1) ELSE PyInt(0))
        ELSE ValueError(<<"not expecting ", TypeRepr(expr)>>)

simplify_ret_skipped(r) == to_expr_ret(r)

\* simplify_ret: the result goes through simplify
simplify_ret(r) == IF IsError(r) THEN r ELSE simplify(r)

derivative(v, var) == simplify_ret(derivative_fn(v, var))

\* ------------------------------------------------------------- to_sexpr
\* " ".join(map(to_sexpr, expr.args)) inside the parentheses; the
\* operands of a node are expressions, so the recursion never raises
RECURSIVE sexpr_text(_)
sexpr_text(e) ==
    IF IsBinaryOp(e)
    THEN <<"(", op(e), " ">> \o sexpr_text(e.args[1]) \o <<" ">>
         \o sexpr_text(e.args[2]) \o <<")">>
    ELSE repr(e)

to_sexpr(v) ==
    IF IsBinaryOp(v) \/ IsAtomic(v) THEN PyStr(sexpr_text(v))
    ELSE ValueError(<<"unsupported type ", TypeRepr(v)>>)

\* self == other as the caller sees it: a bool, or the exception that
\* to_expr(other) raises inside Expr.__eq__
EqCall(self, other) ==
    IF self.tag = "Symbol" THEN PyBool(SymbolEq(self, other))
    ELSE IF IsError(to_expr(other)) THEN to_expr(other)
    ELSE PyBool(ExprEq(self, other))

\* ---------------------------------------------------------------- inputs
IntegerValues == {-1, 0, 1, 2}

SymbolNames == {<<"x">>, <<"1">>}

\* the atoms and native values a caller holds
Atoms == {Integer(i) : i \in IntegerValues} \cup {Symbol(n) : n \in SymbolNames}

NativeInts == {PyInt(i) : i \in IntegerValues}

Unsupported == {PyFloat(<<"1", ".", "5">>), PyStr(<<"s">>)}

Roots == Atoms \cup NativeInts \cup Unsupported

\* the inputs of the derivative runs: plainly named symbols
PlainNames == {<<"x">>, <<"y">>}

SpineOperands == {Integer(-1), Integer(1), Symbol(<<"x">>)}

SpineRoots == SpineOperands \cup {Symbol(<<"y">>)} \cup Unsupported

Vars == {Symbol(n) : n \in PlainNames}

RECURSIVE Depth(_)
Depth(v) ==
    IF IsBinaryOp(v)
    THEN 1 + (IF Depth(v.args[1]) > Depth(v.args[2])
              THEN Depth(v.args[1]) ELSE Depth(v.args[2]))
    ELSE 0

\* ---------------------------------------------------------------- actions
Init ==
    /\ thing \in Roots
    /\ call = "new"
    /\ arg = None
    /\ out = None

InitSpine ==
    /\ thing \in SpineRoots
    /\ call = "new"
    /\ arg = None
    /\ out = None

\* the caller keeps the node that a constructor returns, or sees the
\* exception that BinaryOp.__init__ lets through
Constructed(node, operand) ==
    IF IsError(node)
    THEN /\ thing' = thing
         /\ call' = "construct"
         /\ arg' = operand
         /\ out' = node
    ELSE /\ thing' = node
         /\ call' = "new"
         /\ arg' = None
         /\ out' = None

\* Add(thing, o) or Add(o, thing)
NewAdd(operands, maxDepth) ==
    /\ Depth(thing) < maxDepth
    /\ \E o \in operands :
          \/ Constructed(Add(thing, o), o)
          \/ Constructed(Add(o, thing), o)

\* Mul(thing, o) or Mul(o, thing)
NewMul(operands, maxDepth) ==
    /\ Depth(thing) < maxDepth
    /\ \E o \in operands :
          \/ Constructed(Mul(thing, o), o)
          \/ Constructed(Mul(o, thing), o)

\* Add(thing, o) alone
NewAddLeft(operands, maxDepth) ==
    /\ Depth(thing) < maxDepth
    /\ \E o \in operands : Constructed(Add(thing, o), o)

\* Mul(thing, o) alone
NewMulLeft(operands, maxDepth) ==
    /\ Depth(thing) < maxDepth
    /\ \E o \in operands : Constructed(Mul(thing, o), o)

CallToExpr ==
    /\ call' = "to_expr"
    /\ arg' = None
    /\ out' = to_expr(thing)
    /\ UNCHANGED thing

CallSimplify ==
    /\ call' = "simplify"
    /\ arg' = None
    /\ out' = simplify(thing)
    /\ UNCHANGED thing

CallDerivative(variables) ==
    \E var \in variables :
        /\ call' = "derivative"
        /\ arg' = var
        /\ out' = derivative(thing, var)
        /\ UNCHANGED thing

CallToSexpr ==
    /\ call' = "to_sexpr"
    /\ arg' = None
    /\ out' = to_sexpr(thing)
    /\ UNCHANGED thing

\* thing == other, dispatched to the __eq__ of thing's class
CallEq ==
    /\ IsExpr(thing)
    /\ \E other \in Roots \cup {thing} :
        /\ call' = "eq"
        /\ arg' = other
        /\ out' = EqCall(thing, other)
        /\ UNCHANGED thing

\* every entry point, on small inputs
Next ==
    \/ NewAdd(Atoms \cup NativeInts, MaxApiDepth)
    \/ NewMul(Atoms \cup NativeInts, MaxApiDepth)
    \/ CallToExpr
    \/ CallSimplify
    \/ CallDerivative({Symbol(n) : n \in SymbolNames})
    \/ CallToSexpr
    \/ CallEq

Spec == Init /\ [][Next]_vars

\* the simplifier on deeper trees
NextSimplify ==
    \/ NewAdd(Atoms, MaxDepth)
    \/ NewMul(Atoms, MaxDepth)
    \/ CallSimplify

SpecSimplify == Init /\ [][NextSimplify]_vars

\* the differentiator on left-leaning trees
NextDerivative ==
    \/ NewAddLeft(SpineOperands, MaxSpine)
    \/ NewMulLeft(SpineOperands, MaxSpine)
    \/ CallDerivative(Vars)

SpecDerivative == InitSpine /\ [][NextDerivative]_vars

\* ------------------------------------------------ vocabulary of the claims
x == Symbol(<<"x">>)

\* some node of e is Mul(Integer(2), Integer(1))
RECURSIVE HasTwoTimesOne(_)
HasTwoTimesOne(e) ==
    /\ IsBinaryOp(e)
    /\ \/ e = [tag |-> "Mul", args |-> <<Integer(2), Integer(1)>>]
       \/ HasTwoTimesOne(e.args[1])
       \/ HasTwoTimesOne(e.args[2])

\* no node of e adds or multiplies by Integer 0, and none multiplies by
\* Integer 1 except a Mul(Integer(2), Integer(1))
RECURSIVE NoIdentityOperand(_)
NoIdentityOperand(e) ==
    IsBinaryOp(e) =>
        /\ Integer(0) \notin {e.args[1], e.args[2]}
        /\ (e.tag = "Mul" /\ Integer(1) \in {e.args[1], e.args[2]})
              => e.args = <<Integer(2), Integer(1)>>
        /\ NoIdentityOperand(e.args[1])
        /\ NoIdentityOperand(e.args[2])

\* the integer an expression denotes when the symbols take the values env
RECURSIVE Eval(_, _)
Eval(e, env) ==
    IF e.tag = "Integer" THEN e.value
    ELSE IF e.tag = "Symbol" THEN env[e.name]
    ELSE IF e.tag = "Add" THEN Eval(e.args[1], env) + Eval(e.args[2], env)
    ELSE Eval(e.args[1], env) * Eval(e.args[2], env)

Envs == [SymbolNames -> {0, 3}]

Simplified == call = "simplify" /\ IsExpr(thing)

Differentiated == call = "derivative" /\ IsExpr(out)

\* ------------------------------------------------------------------ C1
\* C1: for every expression e, simplify(Add(e, 0)) and simplify(Add(0, e))
\* are simplify(e), simplify(Mul(e, 1)) and simplify(Mul(1, e)) are
\* simplify(e), and simplify(Mul(e, 0)) and simplify(Mul(0, e)) are the
\* Integer 0.  Here e is the simplified thing and out is simplify(e).
SimplifyIdentities ==
    Simplified =>
        /\ simplify(Add(thing, Integer(0))) = out
        /\ simplify(Add(Integer(0), thing)) = out
        /\ simplify(Mul(thing, Integer(1))) = out
        /\ simplify(Mul(Integer(1), thing)) = out
        /\ simplify(Mul(thing, Integer(0))) = Integer(0)
        /\ simplify(Mul(Integer(0), thing)) = Integer(0)

\* simplify has run on Add(e, 0) with e a node that simplify rewrites
SimplifyIdentitiesWitness ==
    /\ Simplified
    /\ thing.tag = "Add"
    /\ thing.args[2] = Integer(0)
    /\ IsBinaryOp(thing.args[1])
    /\ out # thing.args[1]
    /\ out = simplify(thing.args[1])

\* ------------------------------------------------------------------ C2
\* C2: for every Symbol v and integer k, derivative(Mul(v, Integer(k)), v)
\* is the single node Integer(k).
DerivativeOfScaledSymbol ==
    (/\ call = "derivative"
     /\ thing.tag = "Mul"
     /\ thing.args[1] = arg
     /\ thing.args[2].tag = "Integer")
        => out = Integer(thing.args[2].value)

\* derivative(Mul(v, Integer(2)), v) has returned
DerivativeOfScaledSymbolWitness ==
    /\ call = "derivative"
    /\ thing.tag = "Mul"
    /\ thing.args[1] = arg
    /\ thing.args[2] = Integer(2)
    /\ out = Integer(2)

\* ------------------------------------------------------------------ C3
\* C3 as claimed: derivative(Mul(Mul(x, x), x), x) equals
\* Mul(Mul(Integer(3), x), x).
CubeDerivativeIsThreeXX ==
    (call = "derivative" /\ thing = Mul(Mul(x, x), x) /\ arg = x)
        => Eq(out, Mul(Mul(Integer(3), x), x))

\* C3 as amended: derivative(Mul(Mul(x, x), x), x) is the product-rule sum
\* Add(Mul(Mul(Integer(2), x), x), Mul(x, x)); like terms are not collected.
CubeDerivativeIsProductRuleSum ==
    (call = "derivative" /\ thing = Mul(Mul(x, x), x) /\ arg = x)
        => out = [tag |-> "Add", args |-> <<
                    [tag |-> "Mul", args |-> <<
                        [tag |-> "Mul", args |-> <<Integer(2), x>>], x>>],
                    [tag |-> "Mul", args |-> <<x, x>>]>>]

\* derivative(x*x*x, x) has returned
CubeDerivativeWitness ==
    /\ call = "derivative"
    /\ thing = Mul(Mul(x, x), x)
    /\ arg = x
    /\ IsExpr(out)

\* ------------------------------------------------------------------ C4
\* C4 as claimed: simplify(simplify(e)) = simplify(e) for every
\* expression e.
SimplifyIdempotent == Simplified => simplify(out) = out

\* C4 as amended: simplify(simplify(e)) = simplify(e) exactly when
\* simplify(e) has no node Mul(Integer(2), Integer(1)), the node that the
\* equal-operands rule builds from two operands that simplify to Integer 1.
SimplifyIdempotentUnlessTwoTimesOne ==
    Simplified => (simplify(out) = out <=> ~HasTwoTimesOne(out))

\* simplify has rewritten a tree into a tree that a second pass keeps
SimplifyIdempotentWitness ==
    /\ Simplified
    /\ IsBinaryOp(out)
    /\ out # thing
    /\ ~HasTwoTimesOne(out)
    /\ simplify(out) = out

\* ------------------------------------------------------------------ C5
\* C5: a == b holds iff to_sexpr(a) = to_sexpr(b), in both operand orders,
\* and e == e always holds.
EqAgreesWithSexpr ==
    (call = "eq" /\ IsExpr(arg)) =>
        /\ out.value <=> (to_sexpr(thing) = to_sexpr(arg))
        /\ Eq(arg, thing) <=> (to_sexpr(arg) = to_sexpr(thing))
        /\ (arg = thing) => out.value

\* ------------------------------------------------------------------ C6
\* C6 as claimed: to_expr returns an expression itself, wraps a native
\* integer in Integer, and for any other input raises a TypeError whose
\* message names the type of the input.
ToExprRaisesTypeError ==
    call = "to_expr" =>
        IF IsExpr(thing) THEN out = thing
        ELSE IF thing.tag = "int" THEN out = Integer(thing.value)
        ELSE /\ out.tag = "TypeError"
             /\ \E i \in DOMAIN out.msg : out.msg[i] = TypeName(thing)

\* C6 as amended: to_expr returns an expression itself, wraps a native
\* integer in Integer, and for any other input raises a ValueError whose
\* message, "Cannot convert <input> to Expr", names the input value.
ToExprRaisesValueError ==
    call = "to_expr" =>
        IF IsExpr(thing) THEN out = thing
        ELSE IF thing.tag = "int" THEN out = Integer(thing.value)
        ELSE /\ out.tag = "ValueError"
             /\ out.msg = <<"Cannot convert ">> \o thing.text \o <<" to Expr">>

\* to_expr has been called on a float
ToExprWitness ==
    /\ call = "to_expr"
    /\ thing.tag = "float"
    /\ IsError(out)

\* ------------------------------------------------------------------ C7
\* C7 as claimed: simplify(derivative(e, v)) = derivative(e, v) for every
\* expression e and Symbol v.
DerivativeIsSimplified == Differentiated => simplify(out) = out

\* C7 as amended: derivative(e, v) is the output of one simplify pass: no
\* node adds or multiplies by Integer 0, none multiplies by Integer 1 except
\* a Mul(Integer(2), Integer(1)), and simplify(derivative(e, v)) =
\* derivative(e, v) exactly when the result has no such node.
DerivativeSimplifiedUnlessTwoTimesOne ==
    Differentiated =>
        /\ NoIdentityOperand(out)
        /\ simplify(out) = out <=> ~HasTwoTimesOne(out)

\* derivative has returned a tree that simplify keeps
DerivativeSimplifiedWitness ==
    /\ Differentiated
    /\ IsBinaryOp(out)
    /\ IsBinaryOp(thing)
    /\ simplify(out) = out

\* ------------------------------------------------------------------ C8
\* C8: a native integer i is accepted wherever an expression is:
\* simplify(i) is Integer(i), derivative(i, v) is Integer(0), e == i
\* compares e with Integer(i), and to_sexpr(i) is the decimal text of i.
NativeIntegerAccepted ==
    /\ (call = "simplify" /\ thing.tag = "int") => out = Integer(thing.value)
    /\ (call = "derivative" /\ thing.tag = "int") => out = Integer(0)
    /\ (call = "eq" /\ arg.tag = "int")
          => out = PyBool(Eq(thing, Integer(arg.value)))
    /\ (call = "to_sexpr" /\ thing.tag = "int")
          => out = PyStr(IntStr(thing.value))

\* ------------------------------------------------------------------ C9
\* C9: with sa = simplify(a) and sb = simplify(b) both not Integer 0,
\* simplify(Add(a, b)) is Mul(Integer(2), sa) when sa == sb, and otherwise
\* the folded Integer when both are Integers and Add(sa, sb) when not.
SimplifyAddOfNonZero ==
    (Simplified /\ thing.tag = "Add") =>
        LET sa == simplify(thing.args[1])
            sb == simplify(thing.args[2])
        IN  (sa # Integer(0) /\ sb # Integer(0)) =>
                IF Eq(sa, sb)
                THEN out = [tag |-> "Mul", args |-> <<Integer(2), sa>>]
                ELSE IF sa.tag = "Integer" /\ sb.tag = "Integer"
                THEN out = Integer(sa.value + sb.value)
                ELSE out = [tag |-> "Add", args |-> <<sa, sb>>]

\* simplify has folded two unequal non-zero Integers that its operands
\* simplified to
SimplifyAddOfNonZeroWitness ==
    /\ Simplified
    /\ thing.tag = "Add"
    /\ IsBinaryOp(thing.args[1])
    /\ simplify(thing.args[1]).tag = "Integer"
    /\ thing.args[2].tag = "Integer"
    /\ simplify(thing.args[1]) # Integer(0)
    /\ thing.args[2] # Integer(0)
    /\ ~Eq(simplify(thing.args[1]), thing.args[2])
    /\ out.tag = "Integer"

\* ----------------------------------------------------------------- C10
\* C10: under every assignment of integers to the symbol names,
\* simplify(e) evaluates to the same integer as e.
SimplifyPreservesValue ==
    Simplified => \A env \in Envs : Eval(out, env) = Eval(thing, env)

====
